---- MODULE Spec2Model ----
(***************************************************************************)
(* Model of the CanSat mission-control telemetry loop.                     *)
(*                                                                         *)
(*   telemetry_simulator.py     TelemetrySimulator: clock + history buffers*)
(*   cansat_mission_control.py  CanSatMissionControl: start/stop toggle,   *)
(*                              the two self re-arming Tk timer callbacks, *)
(*                              the command entry and the log              *)
(*                                                                         *)
(* Numbers.  The program computes with floats; the model computes with     *)
(* exact fixed-point integers, one unit per quantity:                      *)
(*   simulator clock, wall clock   1 unit = 1 ms      (0.5 s   = 500)      *)
(*   velocity_time                 1 unit = 1/33 s    (-120 s  = -3960)    *)
(*   gforce_time                   1 unit = 1/1800 s  (0.055   = 99,       *)
(*                                                     5.5/99  = 100)      *)
(* so that np.linspace and the additions are exact.  Float rounding is not *)
(* modelled.  The sinusoid-plus-Gaussian-noise expressions are modelled by *)
(* their value before clamping, drawn from a small set (Gaussian noise is  *)
(* unbounded, so the value can have either sign).                          *)
(***************************************************************************)
EXTENDS Integers, Sequences, FiniteSets, TLC

(***************************************************************************)
(* Program constants                                                       *)
(***************************************************************************)
\* number of points of every history array: np.linspace(.., .., 100)
N == 100
\* default dt of get_next, in ms
DefaultDt == 500
\* np.linspace(-120, 0, 100), in units of 1/33 s
VelocityTimeStart == -3960
VelocityTimeStop == 0
\* np.linspace(-1.5, 4.0, 100), in units of 1/1800 s
GForceTimeStart == -2700
GForceTimeStop == 7200
\* the 0.055 added to the g-force time axis on every get_next, in 1/1800 s
GForceTimeInc == 99
\* max(10, min(100, latency))
LatencyMin == 10
LatencyMax == 100
\* root.after(500, update_telemetry), root.after(1000, update_mission_timer)
TelemetryPeriod == 500
TimerPeriod == 1000
\* self.mission_start_time = None
None == -1

(***************************************************************************)
(* Bounds of the model                                                     *)
(***************************************************************************)
\* simulator calls made in one behaviour of SimSpec
MaxCalls == 3
\* the compatibility wrappers are not called while this many callbacks are pending
MaxPending == 3
\* the wall clock stops advancing here (ms)
MaxTime == 1000
\* operator actions are disabled once the log holds this many lines
MaxLog == 11

\* a long run makes this many get_next calls after construction or a reset
MaxRun == 101
\* a long run is reset, if at all, after at most this many get_next calls
MaxWarmup == 2

\* a client of the simulator makes this many calls
MaxHeapCalls == 3
\* a client of the simulator writes this many elements of returned arrays
MaxWrites == 1

\* the wall clock of a run watched for its log lines goes up to this (ms)
MaxCadenceTime == 15000

\* step arguments given to get_next (ms): negative, zero, fractional, default, large
Steps == {-1000, 0, 500, 1000}
\* joint draws of the three noisy expressions before clamping: the value of
\* 15 + 10 sin(t/20) + N(0,1), of 2 + 3 exp(..) + N(0,0.3) and of 24 + N(0,3)
Noises ==
    { [velocity |-> 12, gforce |-> 4,  latency |-> 24],
      [velocity |-> -3, gforce |-> 2,  latency |-> 130],
      [velocity |-> 7,  gforce |-> -1, latency |-> 5] }
\* the draws used where the whole application runs
AppNoises ==
    { [velocity |-> 12, gforce |-> 4,  latency |-> 24],
      [velocity |-> -3, gforce |-> -1, latency |-> 130] }
\* the draws of the k-th simulator call of a long run: no two calls generate
\* the same velocity or the same g-force, and none generates a zero
RampNoise(k) == [ velocity |-> k, gforce |-> N + k, latency |-> 24 ]
\* the array attributes of the simulator and the array entries of a sample
ArrayFields == {"velocity_time", "velocity_data", "gforce_time", "gforce_data"}
\* where a client writes into an array it was given: first and last element
WritePositions == {1, N}
\* what it writes: a value that is on no time axis and in no value buffer
Scribble == -1
\* amounts by which the wall clock advances between two events (ms)
TimeSteps == {250, 500}
\* texts the operator types into the command entry
Commands == {"", "Send Command...", "PING"}

(***************************************************************************)
(* numpy helpers                                                           *)
(***************************************************************************)
\* np.linspace(start, stop, num): num evenly spaced points, both ends included
Linspace(start, stop, num) ==
    [i \in 1..num |-> start + ((i - 1) * (stop - start)) \div (num - 1)]

\* np.zeros_like(a)
ZerosLike(a) == [i \in 1..Len(a) |-> 0]

\* a roll in the opposite direction
Roll_Opposite(a, shift) == [i \in 1..Len(a) |-> a[((i - 1 + shift) % Len(a)) + 1]]

\* np.roll(a, shift): element i of the result is element i - shift of a, cyclically
Roll(a, shift) == [i \in 1..Len(a) |-> a[((i - 1 - shift) % Len(a)) + 1]]

\* a[-1] = v
SetLast(a, v) == [a EXCEPT ![Len(a)] = v]

\* a.copy()
Copy(a) == [i \in 1..Len(a) |-> a[i]]

\* max(lo, x) and min(hi, x)
Max(a, b) == IF a >= b THEN a ELSE b
Min(a, b) == IF a <= b THEN a ELSE b

(***************************************************************************)
(* TelemetrySimulator                                                      *)
(***************************************************************************)
\* TelemetrySimulator.__init__
NewSimulator ==
    [ elapsed_seconds |-> 0,
      velocity_time   |-> Linspace(VelocityTimeStart, VelocityTimeStop, N),
      velocity_data   |-> ZerosLike(Linspace(VelocityTimeStart, VelocityTimeStop, N)),
      gforce_time     |-> Linspace(GForceTimeStart, GForceTimeStop, N),
      gforce_data     |-> ZerosLike(Linspace(GForceTimeStart, GForceTimeStop, N)) ]

\* a reset that leaves the clock where it is
reset_KeepsClock(sim) ==
    [ elapsed_seconds |-> sim.elapsed_seconds,
      velocity_time   |-> Linspace(VelocityTimeStart, VelocityTimeStop, N),
      velocity_data   |-> ZerosLike(Linspace(VelocityTimeStart, VelocityTimeStop, N)),
      gforce_time     |-> Linspace(GForceTimeStart, GForceTimeStop, N),
      gforce_data     |-> ZerosLike(Linspace(GForceTimeStart, GForceTimeStop, N)) ]

\* a reset that does not rebuild the g-force time axis
reset_KeepsGForceTime(sim) ==
    [ elapsed_seconds |-> 0,
      velocity_time   |-> Linspace(VelocityTimeStart, VelocityTimeStop, N),
      velocity_data   |-> ZerosLike(Linspace(VelocityTimeStart, VelocityTimeStop, N)),
      gforce_time     |-> sim.gforce_time,
      gforce_data     |-> ZerosLike(sim.gforce_time) ]

\* TelemetrySimulator.reset: every attribute is assigned anew
reset(sim) ==
    [ elapsed_seconds |-> 0,
      velocity_time   |-> Linspace(VelocityTimeStart, VelocityTimeStop, N),
      velocity_data   |-> ZerosLike(Linspace(VelocityTimeStart, VelocityTimeStop, N)),
      gforce_time     |-> Linspace(GForceTimeStart, GForceTimeStop, N),
      gforce_data     |-> ZerosLike(Linspace(GForceTimeStart, GForceTimeStop, N)) ]

\* the clock advanced by the default step, whatever dt is
AdvanceClock_DefaultStep(elapsed, dt) == elapsed + DefaultDt

\* self.elapsed_seconds += dt  (no check of dt)
AdvanceClock(elapsed, dt) == elapsed + dt

\* latency = max(10, min(100, latency))
ClampLatency(raw) == Max(LatencyMin, Min(LatencyMax, raw))

\* no clamp of the value
ClampValue_None(raw) == raw

\* new_velocity = max(0, new_velocity); new_gforce = max(0, new_gforce)
ClampValue(raw) == Max(0, raw)

\* a value written over the newest element, nothing dropped
PushValue_Overwrite(buf, v) == SetLast(buf, v)

\* the new value appended without dropping the oldest one
PushValue_NoDrop(buf, v) == Append(buf, v)

\* self.velocity_data = np.roll(self.velocity_data, -1); self.velocity_data[-1] = v
\* (the same two statements for gforce_data)
PushValue(buf, v) == SetLast(Roll(buf, -1), v)

\* the velocity time axis rotated like the value axis
NextVelocityTime_Rolled(vt) == Roll(vt, -1)

\* the velocity time axis in get_next: not rotated, not assigned
NextVelocityTime(vt) == vt

\* the g-force time axis advanced in proportion to dt
NextGForceTime_ByStep(gt, dt) ==
    LET rolled == Roll(gt, -1)
    IN  SetLast(rolled, rolled[Len(rolled) - 1] + (GForceTimeInc * dt) \div DefaultDt)

\* self.gforce_time = np.roll(self.gforce_time, -1)
\* self.gforce_time[-1] = self.gforce_time[-2] + 0.055
NextGForceTime(gt, dt) ==
    LET rolled == Roll(gt, -1)
    IN  SetLast(rolled, rolled[Len(rolled) - 1] + GForceTimeInc)

\* TelemetrySimulator.get_next(dt) with the noise draw `noise`:
\* the simulator after the call and the returned dict.  The dict's pressure,
\* temperature, altitude and altitude_rate are left out: they are functions of
\* the clock and of noise that are written to the readouts and nowhere else.
get_next(sim, dt, noise) ==
    LET elapsed      == AdvanceClock(sim.elapsed_seconds, dt)
        latency      == ClampLatency(noise.latency)
        new_velocity == ClampValue(noise.velocity)
        new_gforce   == ClampValue(noise.gforce)
        next         == [ elapsed_seconds |-> elapsed,
                          velocity_time   |-> NextVelocityTime(sim.velocity_time),
                          velocity_data   |-> PushValue(sim.velocity_data, new_velocity),
                          gforce_time     |-> NextGForceTime(sim.gforce_time, dt),
                          gforce_data     |-> PushValue(sim.gforce_data, new_gforce) ]
    IN  [ sim  |-> next,
          data |-> [ latency       |-> latency,
                     velocity_time |-> Copy(next.velocity_time),
                     velocity_data |-> Copy(next.velocity_data),
                     gforce_time   |-> Copy(next.gforce_time),
                     gforce_data   |-> Copy(next.gforce_data),
                     new_velocity  |-> new_velocity,
                     new_gforce    |-> new_gforce ] ]

\* the value of `data` before any sample was returned
NoData == [ latency |-> 0, velocity_time |-> <<>>, velocity_data |-> <<>>,
            gforce_time |-> <<>>, gforce_data |-> <<>>,
            new_velocity |-> 0, new_gforce |-> 0 ]

(***************************************************************************)
(* The same with numpy arrays as objects: `heap` holds the arrays that     *)
(* exist, an attribute or a dict entry holds a reference (an index of      *)
(* `heap`).  mem.sim is the TelemetrySimulator, mem.samples are the dicts  *)
(* get_next has returned.                                                  *)
(***************************************************************************)
\* nothing constructed yet
NoMemory ==
    [ heap    |-> << >>,
      sim     |-> [ elapsed_seconds |-> 0, velocity_time |-> 0, velocity_data |-> 0,
                    gforce_time |-> 0, gforce_data |-> 0 ],
      samples |-> << >> ]

\* a function of numpy that returns a new array with the elements `a`
NewArray(mem, a) ==
    [ mem |-> [ mem EXCEPT !.heap = Append(mem.heap, a) ],
      ref |-> Len(mem.heap) + 1 ]

\* a "copy" that hands out the array itself
CopyArray_Alias(mem, ref) == [ mem |-> mem, ref |-> ref ]

\* a.copy()
CopyArray(mem, ref) == NewArray(mem, Copy(mem.heap[ref]))

\* np.roll(a, shift)
RollArray(mem, ref, shift) == NewArray(mem, Roll(mem.heap[ref], shift))

\* a[-1] = v
StoreLast(mem, ref, v) ==
    [ mem EXCEPT !.heap[ref] = SetLast(mem.heap[ref], v) ]

\* a[i - 1] = v   (positions count from 1 here)
StoreAt(mem, ref, i, v) ==
    [ mem EXCEPT !.heap[ref] = [ mem.heap[ref] EXCEPT ![i] = v ] ]

\* the assignments of TelemetrySimulator.__init__ and of reset()
ObjReset(mem) ==
    LET vt == NewArray(mem, Linspace(VelocityTimeStart, VelocityTimeStop, N))
        vd == NewArray(vt.mem, ZerosLike(vt.mem.heap[vt.ref]))
        gt == NewArray(vd.mem, Linspace(GForceTimeStart, GForceTimeStop, N))
        gd == NewArray(gt.mem, ZerosLike(gt.mem.heap[gt.ref]))
    IN  [ gd.mem EXCEPT !.sim = [ elapsed_seconds |-> 0,
                                  velocity_time   |-> vt.ref,
                                  velocity_data   |-> vd.ref,
                                  gforce_time     |-> gt.ref,
                                  gforce_data     |-> gd.ref ] ]

\* TelemetrySimulator.get_next(dt) with the noise draw `noise`; the returned
\* dict is appended to mem.samples
ObjGetNext(mem, dt, noise) ==
    LET elapsed      == AdvanceClock(mem.sim.elapsed_seconds, dt)
        latency      == ClampLatency(noise.latency)
        new_velocity == ClampValue(noise.velocity)
        vd           == RollArray(mem, mem.sim.velocity_data, -1)
        m1           == StoreLast(vd.mem, vd.ref, new_velocity)
        gt           == RollArray(m1, mem.sim.gforce_time, -1)
        m2           == StoreLast(gt.mem, gt.ref,
                                  gt.mem.heap[gt.ref][N - 1] + GForceTimeInc)
        new_gforce   == ClampValue(noise.gforce)
        gd           == RollArray(m2, mem.sim.gforce_data, -1)
        m3           == StoreLast(gd.mem, gd.ref, new_gforce)
        m4           == [ m3 EXCEPT !.sim = [ elapsed_seconds |-> elapsed,
                                              velocity_time   |-> mem.sim.velocity_time,
                                              velocity_data   |-> vd.ref,
                                              gforce_time     |-> gt.ref,
                                              gforce_data     |-> gd.ref ] ]
        c1           == CopyArray(m4, m4.sim.velocity_time)
        c2           == CopyArray(c1.mem, m4.sim.velocity_data)
        c3           == CopyArray(c2.mem, m4.sim.gforce_time)
        c4           == CopyArray(c3.mem, m4.sim.gforce_data)
    IN  [ c4.mem EXCEPT !.samples =
            Append(c4.mem.samples,
                   [ latency       |-> latency,
                     velocity_time |-> c1.ref,
                     velocity_data |-> c2.ref,
                     gforce_time   |-> c3.ref,
                     gforce_data   |-> c4.ref,
                     new_velocity  |-> new_velocity,
                     new_gforce    |-> new_gforce ]) ]

(***************************************************************************)
(* State                                                                   *)
(***************************************************************************)
VARIABLES
    \* CanSatMissionControl attributes
    mission_running,     \* self.mission_running
    mission_start_time,  \* self.mission_start_time (wall clock ms, or None)
    elapsed_seconds,     \* self.elapsed_seconds, in ms
    signal_latency,      \* self.signal_latency
    velocity_time,       \* self.velocity_time  (chart buffer)
    velocity_data,       \* self.velocity_data
    gforce_time,         \* self.gforce_time
    gforce_data,         \* self.gforce_data
    start_btn,           \* text of self.start_btn
    timer_display,       \* <<hours, minutes, seconds>> shown by self.timer_display
    cmd_entry,           \* content of self.cmd_entry
    log_text,            \* lines of self.log_text
    simulator,           \* self.simulator: the TelemetrySimulator
    \* Tk event loop
    timers,              \* callbacks armed with root.after, ordered by due time
    now,                 \* wall clock, ms since the application started
    \* history
    data,                \* the dict returned by the last get_next
    calls,               \* the simulator calls of the current mission run
    steps,               \* what the handler that made the last step did, in order
    \* the simulator and the samples it returned as objects (followed where
    \* a client of the simulator writes into the arrays it was given)
    memory

vars == << mission_running, mission_start_time, elapsed_seconds, signal_latency,
           velocity_time, velocity_data, gforce_time, gforce_data, start_btn,
           timer_display, cmd_entry, log_text, simulator, timers, now, data, calls, steps,
           memory >>

\* the controller object (and the history) as one record, for the handlers below
Self ==
    [ mission_running    |-> mission_running,
      mission_start_time |-> mission_start_time,
      elapsed_seconds    |-> elapsed_seconds,
      signal_latency     |-> signal_latency,
      velocity_time      |-> velocity_time,
      velocity_data      |-> velocity_data,
      gforce_time        |-> gforce_time,
      gforce_data        |-> gforce_data,
      start_btn          |-> start_btn,
      timer_display      |-> timer_display,
      cmd_entry          |-> cmd_entry,
      log_text           |-> log_text,
      simulator          |-> simulator,
      timers             |-> timers,
      data               |-> data,
      calls              |-> calls,
      steps              |-> steps,
      memory             |-> memory ]

\* the state after a handler that leaves the controller as `s`
Store(s) ==
    /\ mission_running'    = s.mission_running
    /\ mission_start_time' = s.mission_start_time
    /\ elapsed_seconds'    = s.elapsed_seconds
    /\ signal_latency'     = s.signal_latency
    /\ velocity_time'      = s.velocity_time
    /\ velocity_data'      = s.velocity_data
    /\ gforce_time'        = s.gforce_time
    /\ gforce_data'        = s.gforce_data
    /\ start_btn'          = s.start_btn
    /\ timer_display'      = s.timer_display
    /\ cmd_entry'          = s.cmd_entry
    /\ log_text'           = s.log_text
    /\ simulator'          = s.simulator
    /\ timers'             = s.timers
    /\ data'               = s.data
    /\ calls'              = s.calls
    /\ steps'              = s.steps
    /\ memory'             = s.memory

\* the controller as the event loop (or a caller) finds it when it starts a
\* handler: nothing done yet
Dispatch == [ Self EXCEPT !.steps = << >> ]

\* the handler does `op` (on `arg`) next
Does(self, op, arg) ==
    [ self EXCEPT !.steps = Append(self.steps, [ op |-> op, arg |-> arg ]) ]

(***************************************************************************)
(* Calls of the simulator, recorded in `calls`                             *)
(***************************************************************************)
\* a start that does not reset the simulator
CallReset_Skipped(self) == self

\* self.simulator.reset()
CallReset(self) ==
    [ Does(self, "simulator", "reset")
        EXCEPT !.simulator = reset(self.simulator),
               !.calls     = Append(self.calls,
                                    [ name |-> "reset", dt |-> 0,
                                      running |-> self.mission_running,
                                      new_velocity |-> 0, new_gforce |-> 0 ]) ]

\* data = self.simulator.get_next(dt)
CallGetNext(self, dt, noise) ==
    LET r == get_next(self.simulator, dt, noise)
    IN  [ Does(self, "simulator", "get_next")
            EXCEPT !.simulator = r.sim,
                   !.data      = r.data,
                   !.calls     = Append(self.calls,
                                        [ name |-> "get_next", dt |-> dt,
                                          running |-> self.mission_running,
                                          new_velocity |-> r.data.new_velocity,
                                          new_gforce   |-> r.data.new_gforce ]) ]

(***************************************************************************)
(* Tk: root.after                                                          *)
(***************************************************************************)
\* root.after(ms, callback) at wall-clock time t: the timer list is kept in
\* order of due time, a new timer goes behind the timers due at the same time
RootAfter(self, t, ms, callback) ==
    LET due  == t + ms
        q    == self.timers
        keep == { i \in 1..Len(q) : q[i].due <= due }
        k    == Cardinality(keep)
    IN  [ Does(self, "after", callback)
            EXCEPT !.timers = SubSeq(q, 1, k)
                                \o << [ due |-> due, callback |-> callback ] >>
                                \o SubSeq(q, k + 1, Len(q)) ]

(***************************************************************************)
(* CanSatMissionControl                                                    *)
(***************************************************************************)
\* add_log_message(msg_type, message); the wall-clock timestamp is left out,
\* a message is the tuple of its fixed text and the values formatted into it
add_log_message(self, msg_type, message) ==
    [ self EXCEPT !.log_text = Append(self.log_text,
                                      [ type |-> msg_type, message |-> message ]) ]

\* a send_command that also echoes the placeholder text
send_command_EchoesPlaceholder(self) ==
    LET s0  == Does(self, "enter", "send_command")
        cmd == s0.cmd_entry
    IN  IF cmd # ""
        THEN [ add_log_message(s0, "INFO", << "Command sent", cmd >>)
                 EXCEPT !.cmd_entry = "Send Command..." ]
        ELSE s0

\* send_command
send_command(self) ==
    LET s0  == Does(self, "enter", "send_command")
        cmd == s0.cmd_entry
    IN  IF cmd # "" /\ cmd # "Send Command..."
        THEN [ add_log_message(s0, "INFO", << "Command sent", cmd >>)
                 EXCEPT !.cmd_entry = "Send Command..." ]
        ELSE s0

\* an update_mission_timer that writes its seconds into the simulator's clock
update_mission_timer_WritesSimClock(self, t) ==
    LET s0 == Does(self, "enter", "update_mission_timer")
    IN  IF s0.mission_running
        THEN LET seconds_total == (t - s0.mission_start_time) \div 1000
                 shown == << seconds_total \div 3600,
                             (seconds_total % 3600) \div 60,
                             seconds_total % 60 >>
             IN  RootAfter([ s0 EXCEPT !.elapsed_seconds = seconds_total * 1000,
                                       !.simulator.elapsed_seconds = seconds_total * 1000,
                                       !.timer_display   = shown ],
                           t, TimerPeriod, "update_mission_timer")
        ELSE s0

\* an update_mission_timer that re-arms itself whether the mission runs or not
update_mission_timer_AlwaysRearms(self, t) ==
    LET s0 == Does(self, "enter", "update_mission_timer")
    IN  IF s0.mission_running
        THEN LET seconds_total == (t - s0.mission_start_time) \div 1000
                 shown == << seconds_total \div 3600,
                             (seconds_total % 3600) \div 60,
                             seconds_total % 60 >>
             IN  RootAfter([ s0 EXCEPT !.elapsed_seconds = seconds_total * 1000,
                                       !.timer_display   = shown ],
                           t, TimerPeriod, "update_mission_timer")
        ELSE RootAfter(s0, t, TimerPeriod, "update_mission_timer")

\* update_mission_timer at wall-clock time t
update_mission_timer(self, t) ==
    LET s0 == Does(self, "enter", "update_mission_timer")
    IN  IF s0.mission_running
        THEN LET seconds_total == (t - s0.mission_start_time) \div 1000
                 shown == << seconds_total \div 3600,
                             (seconds_total % 3600) \div 60,
                             seconds_total % 60 >>
             IN  RootAfter([ s0 EXCEPT !.elapsed_seconds = seconds_total * 1000,
                                       !.timer_display   = shown ],
                           t, TimerPeriod, "update_mission_timer")
        ELSE s0

\* a telemetry callback that does not look at mission_running
TelemetryGuard_Always(self) == TRUE

\* `if self.mission_running:` of update_telemetry
TelemetryGuard(self) == self.mission_running

\* an update_telemetry that leaves self.elapsed_seconds to update_mission_timer
update_telemetry_KeepsWallSeconds(self, t, noise) ==
    LET s0 == Does(self, "enter", "update_telemetry")
    IN  IF s0.mission_running
        THEN LET s1 == CallGetNext(s0, DefaultDt, noise)
                 s3 == [ Does(s1, "consume", "data")
                           EXCEPT !.signal_latency = s1.data.latency,
                                  !.velocity_time  = s1.data.velocity_time,
                                  !.velocity_data  = s1.data.velocity_data,
                                  !.gforce_time    = s1.data.gforce_time,
                                  !.gforce_data    = s1.data.gforce_data ]
                 s4 == IF s3.elapsed_seconds % 3000 = 0
                       THEN add_log_message(s3, "DATA",
                                << "VEL", s3.data.new_velocity, "G", s3.data.new_gforce >>)
                       ELSE s3
                 s5 == IF s4.elapsed_seconds % 5000 = 0
                       THEN add_log_message(s4, "STAT", << "P", "T", "A" >>)
                       ELSE s4
             IN  RootAfter(s5, t, TelemetryPeriod, "update_telemetry")
        ELSE s0

\* the telemetry log block of update_telemetry
LogTelemetry(self) ==
    LET s1 == IF self.elapsed_seconds % 3000 = 0
              THEN add_log_message(self, "DATA",
                       << "VEL", self.data.new_velocity, "G", self.data.new_gforce >>)
              ELSE self
    IN  IF s1.elapsed_seconds % 5000 = 0
        THEN add_log_message(s1, "STAT", << "P", "T", "A" >>)
        ELSE s1

\* a consumption that leaves the g-force time axis of the chart as it was
Consume_SkipGForceTime(self) ==
    [ Does(self, "consume", "data")
        EXCEPT !.signal_latency = self.data.latency,
               !.velocity_time  = self.data.velocity_time,
               !.velocity_data  = self.data.velocity_data,
               !.gforce_data    = self.data.gforce_data ]

\* the SENSORES and GRAFICAS blocks of update_telemetry: the readouts and the
\* two chart buffers are set from the sample `data`
Consume(self) ==
    [ Does(self, "consume", "data")
        EXCEPT !.signal_latency = self.data.latency,
               !.velocity_time  = self.data.velocity_time,
               !.velocity_data  = self.data.velocity_data,
               !.gforce_time    = self.data.gforce_time,
               !.gforce_data    = self.data.gforce_data ]

\* an update_telemetry that arms the next tick before it consumes the sample
update_telemetry_ArmsFirst(self, t, noise) ==
    LET s0 == Does(self, "enter", "update_telemetry")
    IN  IF TelemetryGuard(s0)
        THEN LET s1 == CallGetNext(s0, DefaultDt, noise)
                 s2 == [ s1 EXCEPT !.elapsed_seconds = s1.simulator.elapsed_seconds ]
                 s3 == RootAfter(s2, t, TelemetryPeriod, "update_telemetry")
                 s4 == Consume(s3)
             IN  LogTelemetry(s4)
        ELSE s0

\* update_telemetry at wall-clock time t, with the noise draw of its get_next
update_telemetry(self, t, noise) ==
    LET s0 == Does(self, "enter", "update_telemetry")
    IN  IF TelemetryGuard(s0)
        THEN LET s1 == CallGetNext(s0, DefaultDt, noise)
                 s2 == [ s1 EXCEPT !.elapsed_seconds = s1.simulator.elapsed_seconds ]
                 s3 == Consume(s2)
                 s4 == LogTelemetry(s3)
             IN  RootAfter(s4, t, TelemetryPeriod, "update_telemetry")
        ELSE s0

\* update_sensor_data and update_graphs: both only call update_telemetry
update_sensor_data(self, t, noise) ==
    update_telemetry(Does(self, "enter", "update_sensor_data"), t, noise)
update_graphs(self, t, noise) ==
    update_telemetry(Does(self, "enter", "update_graphs"), t, noise)

\* a toggle_mission whose start arms the first tick instead of making it
toggle_mission_DefersFirstTick(self, t, noise) ==
    LET s0 == Does(self, "enter", "toggle_mission")
    IN  IF ~s0.mission_running
        THEN LET s1 == [ s0 EXCEPT !.mission_running    = TRUE,
                                   !.mission_start_time = t,
                                   !.elapsed_seconds    = 0,
                                   !.start_btn          = "STOP",
                                   !.calls              = << >> ]
                 s2 == CallReset(s1)
                 s3 == update_mission_timer(s2, t)
                 s4 == RootAfter(s3, t, TelemetryPeriod, "update_telemetry")
             IN  add_log_message(s4, "INFO", << "Mission START - All systems nominal" >>)
        ELSE add_log_message([ s0 EXCEPT !.mission_running = FALSE,
                                         !.start_btn       = "START" ],
                             "INFO", << "Mission PAUSED by operator" >>)

\* toggle_mission at wall-clock time t
toggle_mission(self, t, noise) ==
    LET s0 == Does(self, "enter", "toggle_mission")
    IN  IF ~s0.mission_running
        THEN LET s1 == [ s0 EXCEPT !.mission_running    = TRUE,
                                   !.mission_start_time = t,
                                   !.elapsed_seconds    = 0,
                                   !.start_btn          = "STOP",
                                   !.calls              = << >> ]
                 s2 == CallReset(s1)
                 s3 == update_mission_timer(s2, t)
                 s4 == update_telemetry(s3, t, noise)
             IN  add_log_message(s4, "INFO", << "Mission START - All systems nominal" >>)
        ELSE add_log_message([ s0 EXCEPT !.mission_running = FALSE,
                                         !.start_btn       = "START" ],
                             "INFO", << "Mission PAUSED by operator" >>)

\* the lines create_log_panel writes into the log
InitialLog ==
    << [ type |-> "INFO", message |-> << "Packet #14205 received (24 bytes)" >> ],
       [ type |-> "STAT", message |-> << "P:101.32 T:24.84 A:1245.82" >> ],
       [ type |-> "WARN", message |-> << "Minor jitter on IMU-Z axis" >> ],
       [ type |-> "INFO", message |-> << "Frame_Synch OK - SD_Logging ACTIVE" >> ],
       [ type |-> "STAT", message |-> << "P:101.30 T:24.88 A:1258.20" >> ],
       [ type |-> "DATA", message |-> << "0x4A 0x35 0xFF 0x01 0x28 0x98 0x13" >> ],
       [ type |-> "INFO", message |-> << "Payload orientation: STABLE" >> ],
       [ type |-> "RECV", message |-> << "New Telemetry Burst Incoming..." >> ] >>

\* CanSatMissionControl.__init__ up to, not including, its toggle_mission()
Constructed ==
    [ mission_running    |-> FALSE,
      mission_start_time |-> None,
      elapsed_seconds    |-> 0,
      signal_latency     |-> 0,
      velocity_time      |-> Linspace(VelocityTimeStart, VelocityTimeStop, N),
      velocity_data      |-> ZerosLike(Linspace(VelocityTimeStart, VelocityTimeStop, N)),
      gforce_time        |-> Linspace(GForceTimeStart, GForceTimeStop, N),
      gforce_data        |-> ZerosLike(Linspace(GForceTimeStart, GForceTimeStop, N)),
      start_btn          |-> "START",
      timer_display      |-> << 0, 0, 0 >>,
      cmd_entry          |-> "Send Command...",
      log_text           |-> InitialLog,
      simulator          |-> NewSimulator,
      timers             |-> << >>,
      data               |-> NoData,
      calls              |-> << >>,
      steps              |-> << >>,
      memory             |-> NoMemory ]

\* the assignment of a record of controller attributes to the variables
Holds(s) ==
    /\ mission_running    = s.mission_running
    /\ mission_start_time = s.mission_start_time
    /\ elapsed_seconds    = s.elapsed_seconds
    /\ signal_latency     = s.signal_latency
    /\ velocity_time      = s.velocity_time
    /\ velocity_data      = s.velocity_data
    /\ gforce_time        = s.gforce_time
    /\ gforce_data        = s.gforce_data
    /\ start_btn          = s.start_btn
    /\ timer_display      = s.timer_display
    /\ cmd_entry          = s.cmd_entry
    /\ log_text           = s.log_text
    /\ simulator          = s.simulator
    /\ timers             = s.timers
    /\ data               = s.data
    /\ calls              = s.calls
    /\ steps              = s.steps
    /\ memory             = s.memory

(***************************************************************************)
(* The application: the state after CanSatMissionControl(root), then the   *)
(* events of root.mainloop()                                               *)
(***************************************************************************)
\* __init__ ends with toggle_mission(), which starts the mission
Init ==
    /\ now = 0
    /\ \E noise \in AppNoises : Holds(toggle_mission(Constructed, 0, noise))

\* the operator presses the START/STOP button
ToggleMission ==
    /\ Len(log_text) < MaxLog
    /\ \E noise \in AppNoises : Store(toggle_mission(Dispatch, now, noise))
    /\ UNCHANGED now

\* the operator edits the command entry
TypeCommand ==
    /\ \E text \in Commands : cmd_entry' = text
    /\ steps' = << >>
    /\ UNCHANGED << mission_running, mission_start_time, elapsed_seconds,
                    signal_latency, velocity_time, velocity_data, gforce_time,
                    gforce_data, start_btn, timer_display, log_text, simulator,
                    timers, now, data, calls, memory >>

\* the operator presses the send button
SendCommand ==
    /\ Len(log_text) < MaxLog
    /\ Store(send_command(Dispatch))
    /\ UNCHANGED now

\* the event loop runs the first timer, which is due
FireTelemetry ==
    /\ timers # << >>
    /\ Head(timers).due <= now
    /\ Head(timers).callback = "update_telemetry"
    /\ \E noise \in AppNoises :
           Store(update_telemetry([ Dispatch EXCEPT !.timers = Tail(timers) ], now, noise))
    /\ UNCHANGED now

FireMissionTimer ==
    /\ timers # << >>
    /\ Head(timers).due <= now
    /\ Head(timers).callback = "update_mission_timer"
    /\ Store(update_mission_timer([ Dispatch EXCEPT !.timers = Tail(timers) ], now))
    /\ UNCHANGED now

\* wall-clock time passes
AdvanceTime ==
    /\ \E d \in TimeSteps : /\ now + d <= MaxTime
                            /\ now' = now + d
    /\ steps' = << >>
    /\ UNCHANGED << mission_running, mission_start_time, elapsed_seconds,
                    signal_latency, velocity_time, velocity_data, gforce_time,
                    gforce_data, start_btn, timer_display, cmd_entry, log_text,
                    simulator, timers, data, calls, memory >>

Next ==
    \/ ToggleMission
    \/ TypeCommand
    \/ SendCommand
    \/ FireTelemetry
    \/ FireMissionTimer
    \/ AdvanceTime

Spec == Init /\ [][Next]_vars

(***************************************************************************)
(* The telemetry loop with callers of the two compatibility wrappers: the   *)
(* toggle, the two timer callbacks and the wrappers, in any order          *)
(***************************************************************************)
\* some code calls update_sensor_data()
CallUpdateSensorData ==
    /\ Len(timers) < MaxPending
    /\ \E noise \in AppNoises : Store(update_sensor_data(Dispatch, now, noise))
    /\ UNCHANGED now

\* some code calls update_graphs()
CallUpdateGraphs ==
    /\ Len(timers) < MaxPending
    /\ \E noise \in AppNoises : Store(update_graphs(Dispatch, now, noise))
    /\ UNCHANGED now

CompatNext ==
    \/ ToggleMission
    \/ FireTelemetry
    \/ FireMissionTimer
    \/ AdvanceTime
    \/ CallUpdateSensorData
    \/ CallUpdateGraphs

CompatSpec == Init /\ [][CompatNext]_vars

(***************************************************************************)
(* The application left to itself: the operator only presses the button,   *)
(* and not after MaxTime; the event loop runs every callback that is due   *)
(* and the wall clock goes on until the callbacks armed up to then are due *)
(***************************************************************************)
\* the operator presses the START/STOP button, not later than MaxTime
LiveToggle ==
    /\ now <= MaxTime
    /\ ToggleMission

\* the mission is stopped and the wall clock reaches the time at which the
\* first pending callback is due
PassTime ==
    /\ ~mission_running
    /\ timers # << >>
    /\ Head(timers).due > now
    /\ Head(timers).due <= MaxTime + TimerPeriod
    /\ now' = Head(timers).due
    /\ steps' = << >>
    /\ UNCHANGED << mission_running, mission_start_time, elapsed_seconds,
                    signal_latency, velocity_time, velocity_data, gforce_time,
                    gforce_data, start_btn, timer_display, cmd_entry, log_text,
                    simulator, timers, data, calls, memory >>

LiveNext ==
    \/ LiveToggle
    \/ FireTelemetry
    \/ FireMissionTimer
    \/ AdvanceTime
    \/ PassTime

\* the event loop runs a callback that is due while the mission is stopped
DrainTelemetry ==
    /\ ~mission_running
    /\ FireTelemetry

DrainMissionTimer ==
    /\ ~mission_running
    /\ FireMissionTimer

\* Tk runs a callback that is due, and time does not stand still; of this
\* only the part that concerns a stopped mission is assumed
LiveSpec ==
    /\ Init
    /\ [][LiveNext]_vars
    /\ WF_vars(DrainTelemetry)
    /\ WF_vars(DrainMissionTimer)
    /\ WF_vars(PassTime)

(***************************************************************************)
(* The simulator on its own: a client constructs a TelemetrySimulator and  *)
(* calls reset() and get_next(dt) in any order, with any dt                *)
(***************************************************************************)
SimInit ==
    /\ now = 0
    /\ Holds(Constructed)

SimReset ==
    /\ Len(calls) < MaxCalls
    /\ Store(CallReset(Dispatch))
    /\ UNCHANGED now

SimGetNext ==
    /\ Len(calls) < MaxCalls
    /\ \E dt \in Steps, noise \in Noises : Store(CallGetNext(Dispatch, dt, noise))
    /\ UNCHANGED now

SimNext ==
    \/ SimReset
    \/ SimGetNext

SimSpec == SimInit /\ [][SimNext]_vars

(***************************************************************************)
(* A long run of the simulator: a client constructs a TelemetrySimulator,  *)
(* may reset it once early on, and calls get_next() with the default step  *)
(* more than N times                                                       *)
(***************************************************************************)
LongInit ==
    /\ now = 0
    /\ Holds(Constructed)

LongReset ==
    /\ \A i \in DOMAIN calls : calls[i].name # "reset"
    /\ Len(calls) <= MaxWarmup
    /\ Store(CallReset(Dispatch))
    /\ UNCHANGED now

LongGetNext ==
    /\ Cardinality({ i \in DOMAIN calls : calls[i].name = "get_next" /\
                        \A j \in DOMAIN calls : calls[j].name = "reset" => j < i })
           < MaxRun
    /\ Store(CallGetNext(Dispatch, DefaultDt, RampNoise(Len(calls) + 1)))
    /\ UNCHANGED now

LongNext ==
    \/ LongReset
    \/ LongGetNext

LongSpec == LongInit /\ [][LongNext]_vars

(***************************************************************************)
(* The simulator and a client that keeps the samples it was given and      *)
(* writes into their arrays, with the arrays as objects                    *)
(***************************************************************************)
HeapInit ==
    /\ now = 0
    /\ Holds([ Constructed EXCEPT !.memory = ObjReset(NoMemory) ])

HeapReset ==
    /\ Len(calls) < MaxHeapCalls
    /\ Store([ CallReset(Dispatch) EXCEPT !.memory = ObjReset(memory) ])
    /\ UNCHANGED now

HeapGetNext ==
    /\ Len(calls) < MaxHeapCalls
    /\ \E noise \in AppNoises :
           Store([ CallGetNext(Dispatch, DefaultDt, noise)
                     EXCEPT !.memory = ObjGetNext(memory, DefaultDt, noise) ])
    /\ UNCHANGED now

\* the elements of returned arrays that hold what the client wrote
Written ==
    { w \in (DOMAIN memory.samples) \X ArrayFields \X WritePositions :
          memory.heap[memory.samples[w[1]][w[2]]][w[3]] = Scribble }

\* the client writes into an array of a sample it was given
ClientWrite ==
    /\ Cardinality(Written) < MaxWrites
    /\ \E k \in DOMAIN memory.samples, f \in ArrayFields, i \in WritePositions :
           /\ << k, f, i >> \notin Written
           /\ Store([ Does(Dispatch, "client", "write")
                        EXCEPT !.memory = StoreAt(memory, memory.samples[k][f],
                                                  i, Scribble) ])
    /\ UNCHANGED now

HeapNext ==
    \/ HeapReset
    \/ HeapGetNext
    \/ ClientWrite

HeapSpec == HeapInit /\ [][HeapNext]_vars

(***************************************************************************)
(* One mission run left alone by the operator: the two timer callbacks     *)
(* fire when they are due or later, up to MaxCadenceTime                   *)
(***************************************************************************)
CadenceInit ==
    /\ now = 0
    /\ Holds(toggle_mission(Constructed, 0, RampNoise(2)))

\* the event loop runs the update_telemetry callback, which is due
CadenceTelemetry ==
    /\ timers # << >>
    /\ Head(timers).due <= now
    /\ Head(timers).callback = "update_telemetry"
    /\ Store(update_telemetry([ Dispatch EXCEPT !.timers = Tail(timers) ], now,
                              RampNoise(Len(calls) + 1)))
    /\ UNCHANGED now

\* half a second of wall-clock time passes
CadenceTime ==
    /\ now + TelemetryPeriod <= MaxCadenceTime
    /\ now' = now + TelemetryPeriod
    /\ steps' = << >>
    /\ UNCHANGED << mission_running, mission_start_time, elapsed_seconds,
                    signal_latency, velocity_time, velocity_data, gforce_time,
                    gforce_data, start_btn, timer_display, cmd_entry, log_text,
                    simulator, timers, data, calls, memory >>

CadenceNext ==
    \/ CadenceTelemetry
    \/ FireMissionTimer
    \/ CadenceTime

CadenceSpec == CadenceInit /\ [][CadenceNext]_vars

(***************************************************************************)
(* Vocabulary of the properties                                            *)
(***************************************************************************)
\* number of update_telemetry callbacks pending in the event loop
PendingTelemetry ==
    Cardinality({ i \in DOMAIN timers : timers[i].callback = "update_telemetry" })

\* number of update_mission_timer callbacks pending in the event loop
PendingMissionTimer ==
    Cardinality({ i \in DOMAIN timers : timers[i].callback = "update_mission_timer" })

\* the step is one call of the simulator, and that call is get_next / reset
IsGetNext ==
    /\ Len(calls') = Len(calls) + 1
    /\ calls'[Len(calls')].name = "get_next"

IsReset ==
    /\ Len(calls') = Len(calls) + 1
    /\ calls'[Len(calls')].name = "reset"

\* the dt of the call that the step makes
StepDt == calls'[Len(calls')].dt

\* index in `calls` of the last reset (0: none, the simulator is as constructed)
LastReset ==
    LET rs == { i \in DOMAIN calls : calls[i].name = "reset" }
    IN  IF rs = {} THEN 0 ELSE CHOOSE i \in rs : \A j \in rs : j <= i

\* the dt of the get_next calls made since construction or the last reset
StepsSinceReset ==
    [ i \in 1..(Len(calls) - LastReset) |-> calls[LastReset + i].dt ]

RECURSIVE Sum(_)
Sum(seq) == IF seq = << >> THEN 0 ELSE Head(seq) + Sum(Tail(seq))

(***************************************************************************)
(* C1.  One stream of telemetry ticks: at any moment at most one           *)
(* update_telemetry callback is pending in the event loop, whatever the    *)
(* order of start/stop toggles and timer expiries.                         *)
(***************************************************************************)
C1_OneTelemetryStream == PendingTelemetry <= 1

(***************************************************************************)
(* C2.  The controller never advances the simulator while the mission is   *)
(* stopped: every get_next call is made with mission_running = TRUE,       *)
(* whatever the order of toggles, timer callbacks and wrapper calls.       *)
(***************************************************************************)
C2_GetNextOnlyWhileRunning ==
    \A i \in DOMAIN calls : calls[i].name = "get_next" => calls[i].running

\* the mission is stopped and the telemetry callback that was pending at the
\* stop has fired since (nothing else removes it from the event loop)
C2_Witness ==
    /\ ~mission_running
    /\ PendingTelemetry = 0
    /\ \E i \in DOMAIN calls : calls[i].name = "get_next"

(***************************************************************************)
(* C3.  In every mission run (from a change of mission_running from FALSE  *)
(* to TRUE on, the start in the constructor included) reset() is called    *)
(* exactly once, before the first get_next() of the run, and never between *)
(* two get_next() calls of the run.                                        *)
(***************************************************************************)
C3_ResetOncePerRun ==
    /\ Len(calls) >= 1
    /\ calls[1].name = "reset"
    /\ \A i \in 2..Len(calls) : calls[i].name = "get_next"

\* a run started by the operator (not by the constructor) with two ticks
C3_Witness ==
    /\ mission_running
    /\ Len(log_text) > Len(InitialLog) + 1
    /\ Len(calls) >= 3

(***************************************************************************)
(* C4.  For every step > 0, one get_next(step) changes the clock to its    *)
(* previous value plus step; after construction or reset() and n calls     *)
(* with positive steps s1..sn the clock is s1 + ... + sn.                  *)
(***************************************************************************)
C4_ClockAdvancesByStep ==
    /\ [][ (IsGetNext /\ StepDt > 0) =>
              simulator'.elapsed_seconds = simulator.elapsed_seconds + StepDt ]_vars
    /\ []( (\A i \in DOMAIN StepsSinceReset : StepsSinceReset[i] > 0) =>
              simulator.elapsed_seconds = Sum(StepsSinceReset) )

\* two calls with different positive steps after a reset
C4_Witness ==
    /\ Len(calls) = 3
    /\ calls[1].name = "reset"
    /\ calls[2].name = "get_next" /\ calls[2].dt = 500
    /\ calls[3].name = "get_next" /\ calls[3].dt = 1000
    /\ simulator.elapsed_seconds = 1500

(***************************************************************************)
(* C5.  Across any sequence of get_next(step) and reset() calls the clock  *)
(* is >= 0, never decreases across a get_next call, and takes a smaller    *)
(* value only by reset().                                                  *)
(***************************************************************************)
C5_ClockMonotone ==
    [][ /\ simulator'.elapsed_seconds >= 0
        /\ IsGetNext => simulator'.elapsed_seconds >= simulator.elapsed_seconds
        /\ simulator'.elapsed_seconds < simulator.elapsed_seconds => IsReset ]_vars

(***************************************************************************)
(* C6.  get_next(step) with step <= 0 fails: it returns no sample and      *)
(* leaves the clock and both history buffers unchanged.                    *)
(***************************************************************************)
C6_NonPositiveStepRejected ==
    [][ (IsGetNext /\ StepDt <= 0) =>
            /\ simulator' = simulator
            /\ data' = data ]_vars

(***************************************************************************)
(* C7.  In every simulator state the four arrays have exactly 100          *)
(* elements, and so have the four arrays of every returned sample.         *)
(***************************************************************************)
C7_ConstantLength ==
    /\ Len(simulator.velocity_time) = 100
    /\ Len(simulator.velocity_data) = 100
    /\ Len(simulator.gforce_time) = 100
    /\ Len(simulator.gforce_data) = 100
    /\ data # NoData =>
          /\ Len(data.velocity_time) = 100
          /\ Len(data.velocity_data) = 100
          /\ Len(data.gforce_time) = 100
          /\ Len(data.gforce_data) = 100

\* a get_next, a reset and a get_next again
C7_Witness ==
    /\ Len(calls) = 3
    /\ calls[1].name = "get_next"
    /\ calls[2].name = "reset"
    /\ calls[3].name = "get_next"
    /\ data # NoData

(***************************************************************************)
(* C8.  Each get_next() shifts both value buffers left by one: the new     *)
(* element i is the old element i+1 for the first 99 positions, and the    *)
(* new last element is the instantaneous value of the returned sample.     *)
(***************************************************************************)
C8_FifoShift ==
    [][ IsGetNext =>
          /\ \A i \in 1..99 :
                /\ simulator'.velocity_data[i] = simulator.velocity_data[i + 1]
                /\ simulator'.gforce_data[i] = simulator.gforce_data[i + 1]
          /\ simulator'.velocity_data[100] = data'.new_velocity
          /\ simulator'.gforce_data[100] = data'.new_gforce ]_vars

\* three generated samples in generation order at the newest end
C8_Witness ==
    /\ Len(calls) = 3
    /\ \A i \in 1..3 : calls[i].name = "get_next"
    /\ simulator.velocity_data[98] = 12
    /\ simulator.velocity_data[99] = 0
    /\ simulator.velocity_data[100] = 7
    /\ simulator.gforce_data[98] = 4
    /\ simulator.gforce_data[99] = 2
    /\ simulator.gforce_data[100] = 0

(***************************************************************************)
(* C9.  get_next() never changes the velocity time axis: in every state it *)
(* is the 100 evenly spaced points from -120 to 0 of construction/reset,   *)
(* and so is the velocity_time of every returned sample.                   *)
(***************************************************************************)
C9_VelocityTimeFixed ==
    /\ simulator.velocity_time = Linspace(VelocityTimeStart, VelocityTimeStop, N)
    /\ data # NoData =>
          data.velocity_time = Linspace(VelocityTimeStart, VelocityTimeStop, N)

\* three get_next calls with different steps, no reset
C9_Witness ==
    /\ Len(calls) = 3
    /\ \A i \in 1..3 : calls[i].name = "get_next"
    /\ calls[1].dt # calls[2].dt
    /\ simulator.velocity_data[100] > 0

(***************************************************************************)
(* C10.  On every get_next(step) the g-force time axis drops its oldest    *)
(* value and gets a newest value 0.055 above the previous newest one, for  *)
(* every step; after construction or reset() and n calls the newest        *)
(* g-force time is 4.0 + 0.055 n.                                          *)
(***************************************************************************)
C10_GForceTimeScroll ==
    /\ [][ IsGetNext =>
              /\ \A i \in 1..99 : simulator'.gforce_time[i] = simulator.gforce_time[i + 1]
              /\ simulator'.gforce_time[100] = simulator.gforce_time[100] + GForceTimeInc
         ]_vars
    /\ []( simulator.gforce_time[100] =
              GForceTimeStop + GForceTimeInc * Len(StepsSinceReset) )

\* a negative, a zero and a large step in a row
C10_Witness ==
    /\ Len(calls) = 3
    /\ calls[1].name = "get_next" /\ calls[1].dt = -1000
    /\ calls[2].name = "get_next" /\ calls[2].dt = 0
    /\ calls[3].name = "get_next" /\ calls[3].dt = 1000
    /\ simulator.gforce_time[100] = GForceTimeStop + 3 * GForceTimeInc

(***************************************************************************)
(* C12.  From any simulator state reset() produces the startup state of a  *)
(* freshly constructed simulator (clock 0, velocity_time 100 points over   *)
(* [-120, 0], gforce_time 100 points over [-1.5, 4.0], value buffers all   *)
(* zero), and a reset() directly after a reset() changes nothing.          *)
(***************************************************************************)
C12_ResetRestoresStartup ==
    [][ IsReset =>
          /\ simulator' = NewSimulator
          /\ simulator'.elapsed_seconds = 0
          /\ simulator'.velocity_time[1] = VelocityTimeStart
          /\ simulator'.velocity_time[100] = VelocityTimeStop
          /\ simulator'.gforce_time[1] = GForceTimeStart
          /\ simulator'.gforce_time[100] = GForceTimeStop
          /\ \A i \in 1..100 : /\ simulator'.velocity_data[i] = 0
                               /\ simulator'.gforce_data[i] = 0
          /\ (calls # << >> /\ calls[Len(calls)].name = "reset") =>
                simulator' = simulator ]_vars

\* a reset of a simulator that had moved, followed by a second reset
C12_Witness ==
    /\ Len(calls) = 3
    /\ calls[1].name = "get_next" /\ calls[1].dt = 1000
    /\ calls[2].name = "reset"
    /\ calls[3].name = "reset"
    /\ simulator = NewSimulator

(***************************************************************************)
(* C13.  A simulator that was reset after any history behaves, for the     *)
(* steps that follow, like a fresh instance given the same steps: the two  *)
(* have the same clock, velocity_time and gforce_time after each call,     *)
(* whatever the noise draws of either instance.                            *)
(***************************************************************************)
\* a fresh instance after get_next calls with the steps `dts`, every draw `noise`
RECURSIVE FreshRun(_, _)
FreshRun(dts, noise) ==
    IF dts = << >>
    THEN NewSimulator
    ELSE get_next(FreshRun(SubSeq(dts, 1, Len(dts) - 1), noise),
                  dts[Len(dts)], noise).sim

C13_ResetLikeFresh ==
    LastReset > 0 =>
        \A noise \in Noises :
            LET fresh == FreshRun(StepsSinceReset, noise)
            IN  /\ simulator.elapsed_seconds = fresh.elapsed_seconds
                /\ simulator.velocity_time = fresh.velocity_time
                /\ simulator.gforce_time = fresh.gforce_time

\* a call, a reset and a call again
C13_Witness ==
    /\ Len(calls) = 3
    /\ calls[1].name = "get_next" /\ calls[1].dt = 1000
    /\ calls[2].name = "reset"
    /\ calls[3].name = "get_next" /\ calls[3].dt = 500
    /\ simulator.velocity_data[100] # 12

(***************************************************************************)
(* C14.  For any noise draw and any clock value every returned sample has  *)
(* 10 <= latency <= 100, new_velocity >= 0 and new_gforce >= 0, and every  *)
(* element of velocity_data and gforce_data is >= 0 in every state.        *)
(***************************************************************************)
C14_ClampedOutputs ==
    /\ data # NoData =>
          /\ 10 <= data.latency /\ data.latency <= 100
          /\ data.new_velocity >= 0
          /\ data.new_gforce >= 0
    /\ \A i \in 1..100 : /\ simulator.velocity_data[i] >= 0
                         /\ simulator.gforce_data[i] >= 0

\* the three draws in a row: latency inside, above and below the range, a
\* negative velocity and a negative g-force, at a negative clock
C14_Witness ==
    /\ Len(calls) = 3
    /\ \A i \in 1..3 : calls[i].name = "get_next"
    /\ simulator.elapsed_seconds < 0
    /\ simulator.velocity_data[99] = 0
    /\ simulator.velocity_data[98] = 12
    /\ simulator.gforce_data[100] = 0
    /\ data.latency = 10

(***************************************************************************)
(* Vocabulary of the properties about what a handler did                   *)
(***************************************************************************)
\* the last step was the handler `h`, called by the event loop
Entered(h) ==
    /\ steps # << >>
    /\ steps[1] = [ op |-> "enter", arg |-> h ]

\* the places in the last handler's trace where it called get_next
GetNextAt ==
    { i \in DOMAIN steps : steps[i] = [ op |-> "simulator", arg |-> "get_next" ] }

\* the last handler called the simulator
SimulatorCalled == \E i \in DOMAIN steps : steps[i].op = "simulator"

(***************************************************************************)
(* C16.  Within one telemetry tick the order is: get_next() returns, then  *)
(* the readouts and both chart buffers are set from that sample, and only  *)
(* then the next tick is armed with after(500).  No get_next() starts      *)
(* while an earlier sample is still being consumed: in the trace of every  *)
(* handler a get_next is followed at once by the consumption of its sample *)
(* and that by the arming, and when the handler returns the readouts and   *)
(* chart buffers are those of the sample.                                  *)
(***************************************************************************)
C16_ConsumedBeforeRearm ==
    /\ \A i \in GetNextAt :
          /\ i + 2 <= Len(steps)
          /\ steps[i + 1] = [ op |-> "consume", arg |-> "data" ]
          /\ steps[i + 2] = [ op |-> "after", arg |-> "update_telemetry" ]
    /\ \A i \in DOMAIN steps :
          steps[i] = [ op |-> "after", arg |-> "update_telemetry" ] =>
              /\ i > 2
              /\ steps[i - 1] = [ op |-> "consume", arg |-> "data" ]
              /\ (i - 2) \in GetNextAt
    /\ GetNextAt # {} =>
          /\ signal_latency = data.latency
          /\ velocity_time = data.velocity_time
          /\ velocity_data = data.velocity_data
          /\ gforce_time = data.gforce_time
          /\ gforce_data = data.gforce_data
          /\ elapsed_seconds = simulator.elapsed_seconds

\* a tick made by the timer callback, after the tick of the start
C16_Witness ==
    /\ steps = << [ op |-> "enter", arg |-> "update_telemetry" ],
                  [ op |-> "simulator", arg |-> "get_next" ],
                  [ op |-> "consume", arg |-> "data" ],
                  [ op |-> "after", arg |-> "update_telemetry" ] >>
    /\ Len(calls) = 3
    /\ velocity_data[N - 1] # velocity_data[N]

(***************************************************************************)
(* C17.  The simulator's clock and four buffers change only inside         *)
(* get_next() and reset(): a step that changes the simulator is a handler  *)
(* that called one of the two, and a stop toggle, an update_mission_timer  *)
(* callback, an update_telemetry callback that fires while the mission is  *)
(* stopped, and send_command leave the simulator as it was.                *)
(***************************************************************************)
C17_SimulatorOnlyByCalls ==
    [][ /\ simulator' # simulator => SimulatorCalled'
        /\ (Entered("toggle_mission")' /\ mission_running) => simulator' = simulator
        /\ Entered("update_mission_timer")' => simulator' = simulator
        /\ (Entered("update_telemetry")' /\ ~mission_running) => simulator' = simulator
        /\ Entered("send_command")' => simulator' = simulator ]_vars

\* the mission was stopped after its first tick and a command was sent; then
\* the pending telemetry callback and the pending mission-timer callback have
\* fired, in that order, and neither has called the simulator or re-armed
C17_Witness ==
    /\ ~mission_running
    /\ steps = << [ op |-> "enter", arg |-> "update_mission_timer" ] >>
    /\ timers = << >>
    /\ simulator.elapsed_seconds = DefaultDt
    /\ \E i \in DOMAIN log_text :
           /\ Len(log_text[i].message) = 2
           /\ log_text[i].message[1] = "Command sent"

(***************************************************************************)
(* C18.  The command entry is only echoed: for any text send_command()     *)
(* leaves mission_running, the mission start time, the pending timers and  *)
(* the simulator unchanged; for a real text it appends one 'Command sent'  *)
(* log line with that text, puts the placeholder back and changes nothing  *)
(* else; for the empty text and for the placeholder 'Send Command...' it   *)
(* changes nothing at all.                                                 *)
(***************************************************************************)
C18_CommandOnlyEchoed ==
    [][ Entered("send_command")' =>
          /\ mission_running' = mission_running
          /\ mission_start_time' = mission_start_time
          /\ timers' = timers
          /\ simulator' = simulator
          /\ UNCHANGED << elapsed_seconds, signal_latency, velocity_time,
                          velocity_data, gforce_time, gforce_data, start_btn,
                          timer_display, now, data, calls >>
          /\ IF cmd_entry # "" /\ cmd_entry # "Send Command..."
             THEN /\ log_text' = Append(log_text,
                                        [ type |-> "INFO",
                                          message |-> << "Command sent", cmd_entry >> ])
                  /\ cmd_entry' = "Send Command..."
             ELSE /\ log_text' = log_text
                  /\ cmd_entry' = cmd_entry ]_vars

\* the command PING has been sent and echoed
C18_Witness ==
    /\ Entered("send_command")
    /\ cmd_entry = "Send Command..."
    /\ Len(log_text[Len(log_text)].message) = 2
    /\ log_text[Len(log_text)].message[1] = "Command sent"
    /\ log_text[Len(log_text)].message[2] = "PING"

(***************************************************************************)
(* C20.  Whenever no handler is executing, the chart buffers of the        *)
(* controller are element-wise equal to the buffers of its simulator:      *)
(* velocity_time, velocity_data, gforce_time and gforce_data.              *)
(***************************************************************************)
C20_ChartBuffersMirrorSimulator ==
    /\ Len(velocity_time) = N /\ Len(simulator.velocity_time) = N
    /\ Len(velocity_data) = N /\ Len(simulator.velocity_data) = N
    /\ Len(gforce_time) = N /\ Len(simulator.gforce_time) = N
    /\ Len(gforce_data) = N /\ Len(simulator.gforce_data) = N
    /\ \A i \in 1..N :
          /\ velocity_time[i] = simulator.velocity_time[i]
          /\ velocity_data[i] = simulator.velocity_data[i]
          /\ gforce_time[i] = simulator.gforce_time[i]
          /\ gforce_data[i] = simulator.gforce_data[i]

\* a stop toggle after the tick of the start and one tick of the timer
C20_Witness ==
    /\ Entered("toggle_mission")
    /\ ~mission_running
    /\ Len(calls) = 3
    /\ gforce_time[N] = GForceTimeStop + 2 * GForceTimeInc

(***************************************************************************)
(* C15.  After n get_next() calls from a fresh or reset simulator exactly  *)
(* max(0, 100 - n) of the original zero entries remain in velocity_data    *)
(* and in gforce_data, in the oldest positions; behind them come the last  *)
(* min(n, 100) generated samples in the order of their generation, so      *)
(* after 100 calls no original zero is left.                               *)
(***************************************************************************)
\* the number of get_next calls since construction or the last reset
CallsSinceReset == Len(calls) - LastReset

\* the number of original zero entries left after n calls
ZerosLeft(n) == Max(0, N - n)

C15_ZerosEvicted ==
    LET n == CallsSinceReset
        z == ZerosLeft(n)
    IN  /\ \A i \in 1..z : /\ simulator.velocity_data[i] = 0
                           /\ simulator.gforce_data[i] = 0
        /\ \A i \in (z + 1)..N :
              /\ simulator.velocity_data[i] = calls[Len(calls) - (N - i)].new_velocity
              /\ simulator.gforce_data[i] = calls[Len(calls) - (N - i)].new_gforce
              /\ calls[Len(calls) - (N - i)].name = "get_next"
        /\ Cardinality({ i \in 1..N : simulator.velocity_data[i] = 0 }) = z
        /\ Cardinality({ i \in 1..N : simulator.gforce_data[i] = 0 }) = z

\* exactly 100 calls after a reset that followed two calls: the last original
\* zero has just been evicted
C15_Witness ==
    /\ LastReset = 3
    /\ CallsSinceReset = N
    /\ simulator.velocity_data[1] = calls[4].new_velocity
    /\ simulator.velocity_data[1] # 0

(***************************************************************************)
(* C19.  Stopping needs no cancellation: once the mission is stopped, and  *)
(* unless the operator starts it again, every pending update_telemetry and *)
(* update_mission_timer callback eventually fires, so a state without      *)
(* pending callbacks is reached; and while the mission stays stopped a     *)
(* step at most takes the callback that fired out of the event loop: no    *)
(* callback is armed and the simulator is not called.                      *)
(***************************************************************************)
C19_StopDrainsCallbacks ==
    /\ (~mission_running) ~> (mission_running \/ timers = << >>)
    /\ [][ (~mission_running /\ ~mission_running') =>
              /\ calls' = calls
              /\ simulator' = simulator
              /\ \/ timers' = timers
                 \/ /\ timers' = Tail(timers)
                    /\ Len(steps') = 1 ]_vars

\* the mission was stopped with a mission-timer callback pending beyond
\* MaxTime; all callbacks have fired and none is pending
C19_Witness ==
    /\ ~mission_running
    /\ timers = << >>
    /\ now > MaxTime
    /\ Entered("update_mission_timer")
    /\ Len(steps) = 1
    /\ Len(calls) > 2

(***************************************************************************)
(* C11.  The four arrays of a sample returned by get_next() are copies,    *)
(* not live references: a client that writes into a returned array leaves  *)
(* the simulator's clock and the contents of its four buffers unchanged,   *)
(* a later get_next() or reset() leaves the contents of every sample       *)
(* returned before unchanged, and the simulator's buffers hold what its    *)
(* calls alone have made them.                                             *)
(***************************************************************************)
\* the clock of the simulator and the contents of its four buffers
SimContents ==
    [ elapsed_seconds |-> memory.sim.elapsed_seconds,
      velocity_time   |-> memory.heap[memory.sim.velocity_time],
      velocity_data   |-> memory.heap[memory.sim.velocity_data],
      gforce_time     |-> memory.heap[memory.sim.gforce_time],
      gforce_data     |-> memory.heap[memory.sim.gforce_data] ]

\* the contents of the k-th sample returned
SampleContents(k) ==
    [ latency       |-> memory.samples[k].latency,
      velocity_time |-> memory.heap[memory.samples[k].velocity_time],
      velocity_data |-> memory.heap[memory.samples[k].velocity_data],
      gforce_time   |-> memory.heap[memory.samples[k].gforce_time],
      gforce_data   |-> memory.heap[memory.samples[k].gforce_data],
      new_velocity  |-> memory.samples[k].new_velocity,
      new_gforce    |-> memory.samples[k].new_gforce ]

\* the last step was a write of the client
ClientWrote == steps = << [ op |-> "client", arg |-> "write" ] >>

C11_SamplesAreCopies ==
    [][ /\ ClientWrote' => SimContents' = SimContents
        /\ SimulatorCalled' =>
              \A k \in DOMAIN memory.samples : SampleContents(k)' = SampleContents(k)
        /\ SimContents' = simulator' ]_vars

\* the client wrote into velocity_data of the first sample, then the simulator
\* returned a second sample; the first still holds what the client wrote
C11_Witness ==
    /\ Len(memory.samples) = 2
    /\ SimulatorCalled
    /\ Written = { << 1, "velocity_data", N >> }
    /\ SimContents.velocity_data[N - 1] # Scribble

(***************************************************************************)
(* C21.  A start never resumes a paused timeline: when a toggle_mission    *)
(* that started the mission returns (the operator's or the one of the      *)
(* constructor), the simulator was reset and has made exactly one tick:    *)
(* its clock is 0.5 s, each value buffer holds 99 zeros followed by the    *)
(* one generated sample, and the time axes are the canonical ones, the     *)
(* g-force axis moved on by one increment.  A stop toggle leaves the clock *)
(* and the buffers at their last values.                                   *)
(***************************************************************************)
\* a value buffer after reset and one tick that generated v
OneSample(v) == [ i \in 1..N |-> IF i = N THEN v ELSE 0 ]

C21_StartIsFreshRun ==
    /\ [](Entered("toggle_mission") /\ mission_running =>
            /\ simulator.elapsed_seconds = DefaultDt
            /\ simulator.velocity_data = OneSample(data.new_velocity)
            /\ simulator.gforce_data = OneSample(data.new_gforce)
            /\ simulator.velocity_time = NewSimulator.velocity_time
            /\ simulator.gforce_time = NextGForceTime(NewSimulator.gforce_time, DefaultDt)
            /\ Len(calls) = 2
            /\ calls[1].name = "reset"
            /\ calls[2].name = "get_next")
    /\ [][ (Entered("toggle_mission")' /\ mission_running) =>
              /\ ~mission_running'
              /\ simulator' = simulator
              /\ UNCHANGED << velocity_time, velocity_data, gforce_time,
                              gforce_data, calls, data >> ]_vars

\* the operator has stopped the mission and started it again; the telemetry
\* callback armed by the first run has fired before
C21_Witness ==
    /\ Entered("toggle_mission")
    /\ mission_running
    /\ mission_start_time > 0
    /\ PendingTelemetry = 1
    /\ simulator.elapsed_seconds = DefaultDt
    /\ \E i \in DOMAIN log_text : log_text[i].message = << "Mission PAUSED by operator" >>

(***************************************************************************)
(* C22.  The telemetry log cadence is decided by the simulator clock of    *)
(* the current tick, not by the wall-clock seconds update_mission_timer    *)
(* writes into the same field elapsed_seconds: a tick appends a DATA line  *)
(* exactly when the simulator clock after it is a multiple of 3 s and a    *)
(* STAT line exactly when it is a multiple of 5 s, and nothing else; with  *)
(* the default step that is every 6th and every 10th tick of the run,      *)
(* however the two timer callbacks interleave.                             *)
(***************************************************************************)
\* the number of ticks of the run
Ticks == Cardinality({ i \in DOMAIN calls : calls[i].name = "get_next" })

\* the telemetry lines in the log
DataLines ==
    { i \in DOMAIN log_text : /\ log_text[i].type = "DATA"
                              /\ log_text[i].message[1] = "VEL" }
StatLines ==
    { i \in DOMAIN log_text : /\ log_text[i].type = "STAT"
                              /\ log_text[i].message[1] = "P" }

\* the lines a tick appends when it leaves the simulator clock at `clock` and
\* has generated the velocity v and the g-force g
TickLines(clock, v, g) ==
    (IF clock % 3000 = 0
     THEN << [ type |-> "DATA", message |-> << "VEL", v, "G", g >> ] >>
     ELSE << >>)
    \o
    (IF clock % 5000 = 0
     THEN << [ type |-> "STAT", message |-> << "P", "T", "A" >> ] >>
     ELSE << >>)

C22_LogCadenceBySimulatorClock ==
    /\ [](/\ simulator.elapsed_seconds = Ticks * DefaultDt
          /\ Cardinality(DataLines) = Ticks \div 6
          /\ Cardinality(StatLines) = Ticks \div 10)
    /\ [][ /\ IsGetNext =>
                log_text' = log_text \o TickLines(simulator'.elapsed_seconds,
                                                  data'.new_velocity,
                                                  data'.new_gforce)
           /\ ~IsGetNext => log_text' = log_text ]_vars

\* the 30th tick has just brought the simulator clock to 15 s and written a
\* DATA and a STAT line; the lines of the 6th .. 24th and of the 10th and 20th
\* tick are in the log, and the mission timer has run in between
C22_Witness ==
    /\ Ticks = 30
    /\ Entered("update_telemetry")
    /\ log_text[Len(log_text)].type = "STAT"
    /\ log_text[Len(log_text) - 1].type = "DATA"
    /\ Cardinality(DataLines) = 5
    /\ Cardinality(StatLines) = 3
    /\ timer_display[3] >= 14

====
